---- MODULE Spec2Model ----
(***************************************************************************)
(* A model of lst: the directory walkers, the search-filter builder, the   *)
(* streaming and the two-pass tree renderers, the JSON builder, the list   *)
(* and search commands and the search command's spinner thread.            *)
(*                                                                         *)
(* A filesystem is a sequence of nodes in the order the OS enumerates them *)
(* depth-first (pre-order).  A path is the sequence of node indices from   *)
(* the scan root (index 0) down to the entry, so <<0>> is the root's path, *)
(* <<>> is the root's parent ("" for a relative root) and <<>> has no      *)
(* parent.  Names are sequences of characters.                             *)
(***************************************************************************)
EXTENDS Integers, Sequences, FiniteSets, TLC

VARIABLES
    cfg,                \* the command line: command, root, flags
    fs,                 \* the filesystem below the root, in enumeration order
    pc,                 \* position of the main thread
    spin,               \* position of the spinner thread ("off": not spawned)
    stop,               \* the shared AtomicBool
    stop_stores,        \* number of stop.store(true) executed
    i,                  \* the spinner's frame counter
    stderr,             \* what was written to stderr, in order
    entries,            \* Vec<DirEntry> of collect_entries
    scan_todo,          \* entries the parallel scan has not yet processed
    show_dirs,          \* the concurrent set of build_search_filter
    items,              \* what the streaming walker yields (entries and errors)
    idx,                \* position of the streaming iterator
    ancestor_has_more,  \* the streaming renderer's stack
    first_print_done,   \* the streaming renderer's flag
    out,                \* lines written to the writer (stdout or the file)
    notice,             \* "Tree exported to ..." was printed
    doc,                \* the JSON document written, or NoDoc
    res,                \* the result of write_to_terminal / write_to_file
    result              \* the result of the run, "none" while running

vars == <<cfg, fs, pc, spin, stop, stop_stores, i, stderr, entries, scan_todo,
          show_dirs, items, idx, ancestor_has_more, first_print_done, out,
          notice, doc, res, result>>

(***************************************************************************)
(* Bounds of the model.                                                    *)
(***************************************************************************)
MaxNodes == 3       \* nodes below the root
MaxSpinNodes == 2   \* nodes below the root in the spinner specification
MaxFrames == 1      \* frames the spinner draws before the scheduler holds it
MaxDepthArg == 2    \* largest --depth argument

\* usize::MAX, standing for "unbounded" (any number above every depth).
UsizeMax == 2147483647

None == -1          \* Option::None of a depth

MaxItems == 3       \* walker items in the depth-sequence specification
MaxItemDepth == 3   \* largest depth of such an item

(***************************************************************************)
(* Names and characters.                                                   *)
(***************************************************************************)
\* u8::to_ascii_lowercase on the characters the model uses
AsciiLower(c) ==
    CASE c = "A" -> "a"
      [] c = "B" -> "b"
      [] c = "D" -> "d"
      [] c = "R" -> "r"
      [] c = "X" -> "x"
      [] OTHER -> c

\* str::to_ascii_lowercase
to_ascii_lowercase(s) == [k \in 1..Len(s) |-> AsciiLower(s[k])]

\* str::contains / AhoCorasick::is_match with one pattern: substring test
contains(s, p) ==
    \E o \in 0..(Len(s) - Len(p)) : \A k \in 1..Len(p) : s[o + k] = p[k]

starts_with_dot(s) == Len(s) > 0 /\ s[1] = "."

\* filters.rs is_hidden: starts with '.' but is not "." or ".."
is_hidden_name(s) ==
    starts_with_dot(s) /\ s # <<".">> /\ s # <<".", ".">>

\* The skip-list of is_common_skip_name (the entries of it the model names).
SkipNames == { <<"g", "o">>, <<".", "g", "i", "t">> }

is_common_skip_name(s) == s \in SkipNames

(***************************************************************************)
(* The filesystem.                                                         *)
(***************************************************************************)
\* The kinds of node a filesystem of the model is made of.
\*   err: enumerating the node fails (permission denied, dangling link),
\*        so the walkers yield an Err item in its place;
\*   ign: a .gitignore rule excludes the node;
\*   meta: the metadata (the size) of the node can be read.
Templates ==
    { [name |-> <<"x", "D">>, dir |-> FALSE, err |-> FALSE, ign |-> FALSE, meta |-> TRUE],
      [name |-> <<"b">>,      dir |-> FALSE, err |-> FALSE, ign |-> FALSE, meta |-> TRUE],
      [name |-> <<"a">>,      dir |-> TRUE,  err |-> FALSE, ign |-> FALSE, meta |-> TRUE],
      [name |-> <<".", "d">>, dir |-> TRUE,  err |-> FALSE, ign |-> FALSE, meta |-> TRUE],
      [name |-> <<"e">>,      dir |-> FALSE, err |-> TRUE,  ign |-> FALSE, meta |-> TRUE] }

NodesUpTo(n) ==
    { [name |-> t.name, dir |-> t.dir, err |-> t.err, ign |-> t.ign,
        meta |-> t.meta, depth |-> d] :
        t \in Templates, d \in 1..n }

\* The parent of node k of filesystem f: the nearest earlier node one level
\* up, 0 (the root) for a node of depth 1.
ParentOf(f, k) ==
    IF f[k].depth = 1 THEN 0
    ELSE LET c == { j \in 1..(k - 1) : f[j].depth = f[k].depth - 1 }
         IN  IF c = {} THEN 0 ELSE CHOOSE j \in c : \A j2 \in c : j2 <= j

\* A filesystem the OS can hold: depths form a pre-order, only readable
\* directories have children, siblings have different names.
WellFormed(f) ==
    /\ Len(f) > 0 => f[1].depth = 1
    /\ \A k \in 1..(Len(f) - 1) :
          /\ f[k + 1].depth <= f[k].depth + 1
          /\ f[k + 1].depth = f[k].depth + 1 => (f[k].dir /\ ~f[k].err)
    /\ \A k \in 1..Len(f) : \A j \in 1..(k - 1) :
          (ParentOf(f, j) = ParentOf(f, k)) => f[j].name # f[k].name

FileSystems(n) ==
    UNION { { f \in [1..m -> NodesUpTo(n)] : WellFormed(f) } : m \in 0..n }

\* Trees in which an ignore rule (.gitignore, .ignore) excludes some nodes.
IgnoredTemplates ==
    { [name |-> <<"a">>,      dir |-> TRUE,  err |-> FALSE, ign |-> FALSE, meta |-> TRUE],
      [name |-> <<"b">>,      dir |-> FALSE, err |-> FALSE, ign |-> TRUE, meta |-> TRUE],
      [name |-> <<"x", "D">>, dir |-> FALSE, err |-> FALSE, ign |-> FALSE, meta |-> TRUE] }

\* Trees in which the metadata of a file cannot be read.
MetaTemplates ==
    { [name |-> <<"a">>,      dir |-> TRUE,  err |-> FALSE, ign |-> FALSE, meta |-> TRUE],
      [name |-> <<"b">>,      dir |-> FALSE, err |-> FALSE, ign |-> FALSE, meta |-> FALSE],
      [name |-> <<"x", "D">>, dir |-> FALSE, err |-> FALSE, ign |-> FALSE, meta |-> TRUE],
      [name |-> <<"e">>,      dir |-> FALSE, err |-> TRUE,  ign |-> FALSE, meta |-> TRUE] }

MetaNodesUpTo(n) ==
    { [name |-> t.name, dir |-> t.dir, err |-> t.err, ign |-> t.ign,
        meta |-> t.meta, depth |-> d] :
        t \in MetaTemplates, d \in 1..n }

MetaFileSystems(n) ==
    UNION { { f \in [1..m -> MetaNodesUpTo(n)] : WellFormed(f) } : m \in 0..n }

IgnoredNodesUpTo(n) ==
    { [name |-> t.name, dir |-> t.dir, err |-> t.err, ign |-> t.ign,
        meta |-> t.meta, depth |-> d] :
        t \in IgnoredTemplates, d \in 1..n }

IgnoredFileSystems(n) ==
    UNION { { f \in [1..m -> IgnoredNodesUpTo(n)] : WellFormed(f) } : m \in 0..n }

RECURSIVE PathOf(_, _)
\* DirEntry::path of node k (0: the root)
PathOf(f, k) == IF k = 0 THEN <<0>> ELSE Append(PathOf(f, ParentOf(f, k)), k)

\* Path::parent; NoPath when there is none
NoPath == <<-1>>
parent(p) == IF Len(p) = 0 THEN NoPath ELSE SubSeq(p, 1, Len(p) - 1)

(***************************************************************************)
(* Entries.                                                                *)
(***************************************************************************)
\* DirEntry::file_name, file_type().is_dir() and depth() of node k; node 0 is
\* the scan root, which the ignore walker yields at depth 0.
NameOf(c, f, k) == IF k = 0 THEN c.rootName ELSE f[k].name
IsDirOf(c, f, k) == IF k = 0 THEN c.rootKind = "dir" ELSE f[k].dir
DepthOf(f, k) == IF k = 0 THEN 0 ELSE f[k].depth

\* filters.rs is_hidden
is_hidden(c, f, k) == is_hidden_name(NameOf(c, f, k))

\* filters.rs should_show_entry
should_show_entry(c, f, k, show_hidden) ==
    IF is_common_skip_name(NameOf(c, f, k)) THEN FALSE
    ELSE show_hidden \/ ~is_hidden(c, f, k)

\* cli/args.rs effective_depth
effective_depth(depth) == IF depth = 0 THEN UsizeMax ELSE depth

(***************************************************************************)
(* The walkers.  An item is [n: node, depth, ok]; ok = FALSE is an Err.    *)
(***************************************************************************)
Item(f, k) == [n |-> k, depth |-> DepthOf(f, k), ok |-> (k = 0 \/ ~f[k].err)]
ErrRoot == [n |-> 0, depth |-> 0, ok |-> FALSE]

RECURSIVE WalkDirYields(_, _, _, _, _)
\* WalkDir::new(root).min_depth(1).max_depth(m).filter_entry(should_show_entry):
\* node k is yielded when it is within the depth bound, no ancestor was
\* pruned and, being an entry, it passes the predicate (an Err passes as is).
WalkDirYields(c, f, k, max_depth, show_hidden) ==
    /\ f[k].depth <= max_depth
    /\ f[k].err \/ should_show_entry(c, f, k, show_hidden)
    /\ ParentOf(f, k) = 0
         \/ WalkDirYields(c, f, ParentOf(f, k), max_depth, show_hidden)

\* The items of the nodes in `kept`, in the pre-order the walkers iterate in
SeqOfNodes(f, kept) ==
    LET ks == SelectSeq([k \in 1..Len(f) |-> k], LAMBDA k : k \in kept)
    IN  [j \in 1..Len(ks) |-> Item(f, ks[j])]

WalkDirItems(c, f, max_depth, show_hidden) ==
    IF c.rootKind = "invalid" THEN <<ErrRoot>>
    ELSE IF c.rootKind = "file" THEN <<>>
    ELSE SeqOfNodes(f, { k \in 1..Len(f) :
                           WalkDirYields(c, f, k, max_depth, show_hidden) })

\* tree.rs collect_entries: the walk with the Err items dropped
collect_entries(c, f, max_depth, show_hidden) ==
    SelectSeq(WalkDirItems(c, f, max_depth, show_hidden), LAMBDA it : it.ok)

RECURSIVE IgnoreYields(_, _, _, _, _)
\* WalkBuilder::new(root).max_depth(..).hidden(!show_all).git_ignore(true)
\*   .filter_entry(!is_common_skip_os): no min_depth, so the root is yielded
\* at depth 0, and the root is exempt from every filter.
IgnoreYields(c, f, k, max_depth, show_all) ==
    /\ f[k].depth <= max_depth
    /\ \/ f[k].err
       \/ /\ show_all \/ ~starts_with_dot(f[k].name)
          /\ ~f[k].ign
          /\ ~is_common_skip_name(f[k].name)
    /\ ParentOf(f, k) = 0
         \/ IgnoreYields(c, f, ParentOf(f, k), max_depth, show_all)

IgnoreItems(c, f, max_depth, show_all) ==
    IF c.rootKind = "invalid" THEN <<ErrRoot>>
    ELSE IF c.rootKind = "file" THEN <<Item(f, 0)>>
    ELSE <<Item(f, 0)>> \o
             SeqOfNodes(f, { k \in 1..Len(f) :
                                IgnoreYields(c, f, k, max_depth, show_all) })

(***************************************************************************)
(* core/search.rs                                                          *)
(***************************************************************************)
\* The name test both functions make: lowercased name contains the
\* lowercased pattern.
name_matches(c, f, k, pattern) ==
    contains(to_ascii_lowercase(NameOf(c, f, k)), to_ascii_lowercase(pattern))

\* A plausible slip: only the immediate parent is inserted.
ParentChainOnlyParent(p) == IF parent(p) = NoPath THEN {} ELSE {parent(p)}

RECURSIVE ParentChain(_)
\* while let Some(parent) = path.parent() { insert(parent); path = parent }
ParentChain(p) ==
    IF parent(p) = NoPath THEN {} ELSE {parent(p)} \cup ParentChain(parent(p))

\* A plausible slip: the loop starts at the entry's own path.
ScanEntryWithSelf(c, f, k, pattern, show_hidden) ==
    IF IsDirOf(c, f, k) /\ ~show_hidden /\ is_hidden(c, f, k) THEN {}
    ELSE IF name_matches(c, f, k, pattern)
         THEN {PathOf(f, k)} \cup ParentChain(PathOf(f, k))
    ELSE {}

\* A plausible slip: the hidden-directory test of line 28 is left out.
ScanEntryNoHiddenSkip(c, f, k, pattern, show_hidden) ==
    IF name_matches(c, f, k, pattern) THEN ParentChain(PathOf(f, k)) ELSE {}

\* The closure build_search_filter runs on one entry: the paths it inserts.
ScanEntry(c, f, k, pattern, show_hidden) ==
    IF IsDirOf(c, f, k) /\ ~show_hidden /\ is_hidden(c, f, k) THEN {}
    ELSE IF name_matches(c, f, k, pattern) THEN ParentChain(PathOf(f, k))
    ELSE {}

\* should_print_entry(entry, search_pattern, show_dirs, show_hidden);
\* searching = search_pattern.is_some()
should_print_entry(c, f, k, searching, pattern, dirs, show_hidden) ==
    IF searching
    THEN IF IsDirOf(c, f, k) /\ ~show_hidden /\ is_hidden(c, f, k) THEN FALSE
         ELSE name_matches(c, f, k, pattern) \/ PathOf(f, k) \in dirs
    ELSE TRUE

(***************************************************************************)
(* output/terminal.rs and output/formatter.rs                              *)
(***************************************************************************)
\* The box-drawing characters U+251C, U+2514, U+2502 and U+2500 are written
\* <tee>, <ell>, <bar> and -, the ASCII backquote <bq>.
branch_middle(cs) == IF cs = "Unicode" THEN "<tee>-- " ELSE "+-- "
branch_last(cs) == IF cs = "Unicode" THEN "<ell>-- " ELSE "<bq>-- "
continuation(cs) == IF cs = "Unicode" THEN "<bar>   " ELSE "|   "
empty(cs) == "    "

\* Vec::resize(n, v) and slice.get(k).copied().unwrap_or(d), k counted from 0
resize(v, n, x) == [k \in 1..n |-> IF k <= Len(v) THEN v[k] ELSE x]
get_or(v, k, d) == IF k + 1 <= Len(v) THEN v[k + 1] ELSE d

\* TreeFormatter::generate_indent: the glyphs of one line, left to right
generate_indent(cs, depth, is_last) ==
    IF depth = 0 THEN <<>>
    ELSE [k \in 1..depth |->
            IF k < depth
            THEN IF (k - 1) < Len(is_last) /\ is_last[k] THEN empty(cs)
                 ELSE continuation(cs)
            ELSE IF get_or(is_last, depth - 1, FALSE) THEN branch_last(cs)
                 ELSE branch_middle(cs)]

\* TreeFormatter::compute_last_child_map over the entries' depths:
\* result[n] is the is_last vector of entry n
compute_last_child_map(depths) ==
    [n \in 1..Len(depths) |->
        LET current_depth == depths[n]
            is_last_at_depth ==
                IF n + 1 <= Len(depths) THEN depths[n + 1] < current_depth
                ELSE TRUE
        IN  [a \in 1..current_depth |->
                IF a = current_depth THEN is_last_at_depth
                ELSE ~(\E j \in (n + 1)..Len(depths) : depths[j] = a)]]

\* One line of output: print_entry_line / print_entry_line_ignore.  The
\* colour escapes around the name and the size are left out.
\* entry.metadata() / std::fs::metadata(entry.path()) succeeds
MetaOk(f, k) == k = 0 \/ f[k].meta

\* metadata().map(|m| m.len()).unwrap_or(0), formatted: the size, written
\* "size", or zero
size_text(meta_ok) == IF meta_ok THEN " (size)" ELSE " (0 B)"

EntryLine(c, f, k, indent) ==
    [n |-> k, indent |-> indent, name |-> NameOf(c, f, k),
     suffix |-> IF IsDirOf(c, f, k) THEN "/" ELSE size_text(MetaOk(f, k))]

\* writeln!(file, ".")
DotLine == [n |-> None, indent |-> <<>>, name |-> <<".">>, suffix |-> ""]

\* The charset of a writer: CharacterSet::detect() with colour (terminal),
\* Unicode without (file).
CharsetOf(c) == IF c.output = "terminal" THEN c.charset ELSE "Unicode"

\* print_tree: the lines it writes for `ents` (items of collect_entries)
print_tree(c, f, ents, searching, pattern, dirs) ==
    LET keep(it) == should_print_entry(c, f, it.n, searching, pattern, dirs, TRUE)
        filtered == SelectSeq(ents, keep)
        map == compute_last_child_map([n \in 1..Len(filtered) |-> filtered[n].depth])
    IN  [n \in 1..Len(filtered) |->
            EntryLine(c, f, filtered[n].n,
                      generate_indent(CharsetOf(c), filtered[n].depth, map[n]))]

(***************************************************************************)
(* The streaming renderer's loop body (write_streaming).                   *)
(***************************************************************************)
\* The peek: the depth of the next item of the walker, None when there is
\* none or when it is an Err.
PeekDepth(its, n) ==
    IF n + 1 <= Len(its) /\ its[n + 1].ok THEN its[n + 1].depth ELSE None

\* A plausible slip: the stack is only ever extended, never cut back.
StreamStateNoTruncate(stack, depth, next_depth) ==
    LET s1 == IF depth > Len(stack) THEN resize(stack, depth, TRUE) ELSE stack
        current_is_last == IF next_depth = None THEN TRUE ELSE next_depth < depth
        is_last == [k \in 1..depth |->
                       IF k < depth THEN ~get_or(s1, k - 1, FALSE)
                       ELSE current_is_last]
        s2 == IF depth > 0 THEN [s1 EXCEPT ![depth] = ~current_is_last] ELSE s1
    IN  [is_last |-> is_last, stack |-> s2]

\* Lines 360-390 / 419-446: from the stack, the entry's depth and the peek,
\* the is_last vector of the line and the stack afterwards.
StreamState(stack, depth, next_depth) ==
    LET s1 == IF depth < Len(stack) THEN SubSeq(stack, 1, depth)
              ELSE IF depth > Len(stack) THEN resize(stack, depth, TRUE)
              ELSE stack
        current_is_last == IF next_depth = None THEN TRUE ELSE next_depth < depth
        is_last == [k \in 1..depth |->
                       IF k < depth THEN ~get_or(s1, k - 1, FALSE)
                       ELSE current_is_last]
        s2 == IF depth > 0
              THEN [resize(s1, depth, TRUE) EXCEPT ![depth] = ~current_is_last]
              ELSE s1
    IN  [is_last |-> is_last, stack |-> s2]

\* A plausible slip: the search branch tests the name and forgets the set.
StreamKeepsNameOnly(c, f, k, searching, pattern, dirs) ==
    IF searching THEN name_matches(c, f, k, pattern)
    ELSE should_print_entry(c, f, k, FALSE, pattern, dirs, c.show_all)

\* The filter of the streaming loop: the ignore walker's branch tests the name
\* and the set itself (lines 347-355), the walkdir branch calls
\* should_print_entry (line 415).
StreamKeeps(c, f, k, searching, pattern, dirs) ==
    IF searching
    THEN name_matches(c, f, k, pattern) \/ PathOf(f, k) \in dirs
    ELSE should_print_entry(c, f, k, FALSE, pattern, dirs, c.show_all)

(***************************************************************************)
(* JsonTreeBuilder.  A node is [n, type, size, children]; size says        *)
(* whether the size field is present, children is [present, list]:        *)
(* whether the key is present, and the array.                              *)
(***************************************************************************)
NoChildren == [present |-> FALSE, list |-> <<>>]
Children(list) == [present |-> TRUE, list |-> list]

\* A plausible slip: a failed lookup is written as a size of zero.
has_size_fieldAlways(is_dir, meta_ok) == ~is_dir

\* printer.rs 168-184: size = metadata().map(len).ok() for a file, None for
\* a directory; the field is set when size is Some
has_size_field(is_dir, meta_ok) == ~is_dir /\ meta_ok

\* A plausible slip: the array is attached whatever it holds.
has_children_fieldAlways(subtree, searching) == TRUE

\* printer.rs 187: !subtree.as_array().unwrap().is_empty() || search_pattern.is_none()
has_children_field(subtree, searching) == subtree # <<>> \/ ~searching

RECURSIVE build_children(_, _, _, _, _, _, _)
build_children(c, f, ents, parent_path, searching, pattern, dirs) ==
    LET isChild(it) ==
            /\ parent(PathOf(f, it.n)) = parent_path
            /\ searching =>
                 should_print_entry(c, f, it.n, TRUE, pattern, dirs, c.show_all)
        kids == SelectSeq(ents, isChild)
    IN  [j \in 1..Len(kids) |->
            LET k == kids[j].n
                subtree == IF IsDirOf(c, f, k)
                           THEN build_children(c, f, ents, PathOf(f, k),
                                               searching, pattern, dirs)
                           ELSE <<>>
            IN  [n |-> k,
                 type |-> IF IsDirOf(c, f, k) THEN "directory" ELSE "file",
                 size |-> has_size_field(IsDirOf(c, f, k), MetaOk(f, k)),
                 children |-> IF IsDirOf(c, f, k) /\ has_children_field(subtree, searching)
                              THEN Children(subtree) ELSE NoChildren]]

\* A plausible slip: the top level is built and the recursion is left out.
buildTopLevelOnly(c, f, ents, searching, pattern, dirs) ==
    LET top == build_children(c, f, ents, <<0>>, searching, pattern, dirs)
    IN  [n |-> 0, type |-> "directory", size |-> FALSE,
         children |-> Children([j \in 1..Len(top) |->
                         [top[j] EXCEPT !.children =
                             IF top[j].children.present THEN Children(<<>>)
                             ELSE NoChildren]])]

\* JsonTreeBuilder::build: the synthetic root node
build(c, f, ents, searching, pattern, dirs) ==
    [n |-> 0, type |-> "directory", size |-> FALSE,
     children |-> Children(build_children(c, f, ents, <<0>>, searching, pattern, dirs))]

NoDoc == [n |-> None, type |-> "none", size |-> FALSE, children |-> NoChildren]

(***************************************************************************)
(* The command lines and the initial states.                               *)
(***************************************************************************)
Patterns == { <<"D">>, <<"b">> }
RootNames == { <<"r">>, <<".", "r">> }

\* cfg.pattern is read only when cfg.cmd = "search" (search_pattern is Some);
\* cfg.charset is what CharacterSet::detect() answers, read only by the
\* terminal's text renderer.
Configs ==
    { c \in [cmd : {"list", "search"}, rootKind : {"dir", "file", "invalid"},
             rootName : RootNames, output : {"terminal", "file"},
             json : BOOLEAN, show_all : BOOLEAN, depth : 0..MaxDepthArg,
             pattern : Patterns \cup {<<>>}, charset : {"Unicode", "Ascii"}] :
        /\ (c.cmd = "list") <=> (c.pattern = <<>>)
        /\ (c.output = "file" \/ c.json) => c.charset = "Unicode" }

Searching(c) == c.cmd = "search"

\* TreeConfig::format and the writer chosen by write_to_terminal/write_to_file
Sink(c) ==
    IF c.json THEN "json" ELSE IF c.output = "terminal" THEN "stream" ELSE "print"

\* search.rs: the spinner is spawned on the terminal branch
HasSpinner(c) == c.cmd = "search" /\ c.output = "terminal"

\* The state a run starts in, the command line drawn from cs and the tree
\* under a root that is a directory from fss
InitWith(cs, fss) ==
    /\ cfg \in cs
    /\ fs \in IF cfg.rootKind = "dir" THEN fss ELSE {<<>>}
    /\ pc = "start"
    /\ spin = "off"
    /\ stop = FALSE
    /\ stop_stores = 0
    /\ i = 0
    /\ stderr = <<>>
    /\ entries = <<>>
    /\ scan_todo = {}
    /\ show_dirs = {}
    /\ items = <<>>
    /\ idx = 1
    /\ ancestor_has_more = <<>>
    /\ first_print_done = FALSE
    /\ out = <<>>
    /\ notice = FALSE
    /\ doc = NoDoc
    /\ res = "none"
    /\ result = "none"

InitOf(cs, n) == InitWith(cs, FileSystems(n))

Init == InitOf(Configs, MaxNodes)

mainVars == <<pc, entries, scan_todo, show_dirs, items, idx, ancestor_has_more,
              first_print_done, out, notice, doc, res, result>>
scanVars == <<entries, scan_todo, show_dirs>>
streamVars == <<items, idx, ancestor_has_more, first_print_done>>
spinVars == <<spin, i>>
flagVars == <<stop, stop_stores, stderr>>
outVars == <<out, notice, doc>>

(***************************************************************************)
(* commands/list.rs and commands/search.rs: dispatch.                      *)
(***************************************************************************)
\* list.rs 9-11: the root is a file; print_file_with_highlighting reads it
\* (Io on failure) and prints it (HighlightError when highlighting fails,
\* after printing the plain text).
PreviewLine == [n |-> None, indent |-> <<>>, name |-> <<"content">>, suffix |-> ""]

ListFile ==
    /\ pc = "start" /\ cfg.cmd = "list" /\ cfg.rootKind = "file"
    /\ \E r \in {"Ok", "Io", "Highlight"} :
          /\ result' = r
          /\ out' = IF r = "Io" THEN out ELSE Append(out, PreviewLine)
    /\ pc' = "done"
    /\ UNCHANGED <<cfg, fs, spinVars, flagVars, scanVars, streamVars, notice, doc, res>>

\* list.rs 13-27: the root is a directory
ListDir ==
    /\ pc = "start" /\ cfg.cmd = "list" /\ cfg.rootKind = "dir"
    /\ pc' = IF cfg.output = "file" THEN "create"
             ELSE IF cfg.json THEN "collect" ELSE "open"
    /\ UNCHANGED <<cfg, fs, spinVars, flagVars, scanVars, streamVars, outVars, res, result>>

\* list.rs 28-33: neither
ListInvalid ==
    /\ pc = "start" /\ cfg.cmd = "list" /\ cfg.rootKind = "invalid"
    /\ result' = "InvalidPath"
    /\ pc' = "done"
    /\ UNCHANGED <<cfg, fs, spinVars, flagVars, scanVars, streamVars, outVars, res>>

\* search.rs 26-28: output to a file, no spinner; the root is not examined
SearchFile ==
    /\ pc = "start" /\ cfg.cmd = "search" /\ cfg.output = "file"
    /\ pc' = "create"
    /\ UNCHANGED <<cfg, fs, spinVars, flagVars, scanVars, streamVars, outVars, res, result>>

\* search.rs 30-56: the terminal branch spawns the spinner thread and calls
\* write_to_terminal; the root is not examined
SearchTerminal ==
    /\ pc = "start" /\ cfg.cmd = "search" /\ cfg.output = "terminal"
    /\ spin' = "hide"
    /\ pc' = IF cfg.json THEN "collect" ELSE "open"
    /\ UNCHANGED <<cfg, fs, i, flagVars, scanVars, streamVars, outVars, res, result>>

(***************************************************************************)
(* printer.rs: write_to_file.                                              *)
(***************************************************************************)
\* File::create(output_path)?
CreateFile ==
    /\ pc = "create"
    /\ \/ /\ pc' = IF cfg.json THEN "collect" ELSE "header"
          /\ res' = res
       \/ /\ pc' = "return"
          /\ res' = "Io"
    /\ UNCHANGED <<cfg, fs, spinVars, flagVars, scanVars, streamVars, outVars, result>>

\* A plausible slip: the header is written only when a pattern is active.
WriteHeaderWhenSearching ==
    /\ pc = "header"
    /\ out' = IF Searching(cfg) THEN Append(out, DotLine) ELSE out
    /\ pc' = "collect"
    /\ res' = res
    /\ UNCHANGED <<cfg, fs, spinVars, flagVars, scanVars, streamVars, notice, doc, result>>

\* writeln!(file, ".")?
WriteHeader ==
    /\ pc = "header"
    /\ \/ /\ out' = Append(out, DotLine)
          /\ pc' = "collect"
          /\ res' = res
       \/ /\ out' = out
          /\ pc' = "return"
          /\ res' = "Io"
    /\ UNCHANGED <<cfg, fs, spinVars, flagVars, scanVars, streamVars, notice, doc, result>>

\* println!("Tree exported to {}", output_path); Ok(())
Notice ==
    /\ pc = "notice"
    /\ notice' = TRUE
    /\ res' = "Ok"
    /\ pc' = "return"
    /\ UNCHANGED <<cfg, fs, spinVars, flagVars, scanVars, streamVars, out, doc, result>>

(***************************************************************************)
(* TreeData::collect / the show_dirs block of write_streaming, and the     *)
(* parallel scan of build_search_filter.                                   *)
(***************************************************************************)
Collect ==
    /\ pc = "collect"
    /\ LET es == collect_entries(cfg, fs, effective_depth(cfg.depth), cfg.show_all)
       IN  /\ entries' = es
           /\ scan_todo' = IF Searching(cfg) THEN 1..Len(es) ELSE {}
    /\ show_dirs' = {}
    /\ pc' = IF Searching(cfg) THEN "scan" ELSE Sink(cfg)
    /\ UNCHANGED <<cfg, fs, spinVars, flagVars, streamVars, outVars, res, result>>

\* A plausible slip: each worker stores its own set over the shared one, so
\* the set left at the end is that of the entry processed last.
ScanStepLastWins ==
    /\ pc = "scan"
    /\ \E k \in scan_todo :
          LET found == ScanEntry(cfg, fs, entries[k].n, cfg.pattern, cfg.show_all)
          IN  /\ show_dirs' = IF found = {} THEN show_dirs ELSE found
              /\ scan_todo' = scan_todo \ {k}
    /\ UNCHANGED <<cfg, fs, pc, spinVars, flagVars, entries, streamVars, outVars, res, result>>

\* A plausible slip: the set is created by the first worker that finds a
\* match, and later workers find it already there and leave it.
ScanStepFirstWins ==
    /\ pc = "scan"
    /\ \E k \in scan_todo :
          LET found == ScanEntry(cfg, fs, entries[k].n, cfg.pattern, cfg.show_all)
          IN  /\ show_dirs' = IF show_dirs = {} THEN found ELSE show_dirs
              /\ scan_todo' = scan_todo \ {k}
    /\ UNCHANGED <<cfg, fs, pc, spinVars, flagVars, entries, streamVars, outVars, res, result>>

\* entries.par_iter().for_each(..): one entry, in any order
ScanStep ==
    /\ pc = "scan"
    /\ \E k \in scan_todo :
          /\ show_dirs' = show_dirs \cup
                 ScanEntry(cfg, fs, entries[k].n, cfg.pattern, cfg.show_all)
          /\ scan_todo' = scan_todo \ {k}
    /\ UNCHANGED <<cfg, fs, pc, spinVars, flagVars, entries, streamVars, outVars, res, result>>

\* show_dirs.into_iter().collect(): every entry was processed
ScanDone ==
    /\ pc = "scan"
    /\ scan_todo = {}
    /\ pc' = Sink(cfg)
    /\ UNCHANGED <<cfg, fs, spinVars, flagVars, scanVars, streamVars, outVars, res, result>>

(***************************************************************************)
(* The sinks of collected entries: print_tree and write_json.              *)
(***************************************************************************)
\* TreeWriter::write: print_tree(..)?; a write may fail after any line
WriteTree ==
    /\ pc = "print"
    /\ LET lines == print_tree(cfg, fs, entries, Searching(cfg), cfg.pattern, show_dirs)
       IN  \/ /\ out' = out \o lines
              /\ pc' = "notice"
              /\ res' = res
           \/ \E n \in 1..Len(lines) :
                 /\ out' = out \o SubSeq(lines, 1, n - 1)
                 /\ pc' = "return"
                 /\ res' = "Io"
    /\ UNCHANGED <<cfg, fs, spinVars, flagVars, scanVars, streamVars, notice, doc, result>>

\* write_json: build, serialise, writeln!(writer, ..)?
WriteJson ==
    /\ pc = "json"
    /\ \/ /\ doc' = build(cfg, fs, entries, Searching(cfg), cfg.pattern, show_dirs)
          /\ pc' = IF cfg.output = "file" THEN "notice" ELSE "return"
          /\ res' = IF cfg.output = "file" THEN res ELSE "Ok"
       \/ /\ doc' = doc
          /\ pc' = "return"
          /\ res' = "Io"
    /\ UNCHANGED <<cfg, fs, spinVars, flagVars, scanVars, streamVars, out, notice, result>>

(***************************************************************************)
(* write_streaming.                                                        *)
(***************************************************************************)
\* Lines 298-322: the walker is chosen; 336: first_print_done = false.
\* With a pattern the ignore walker, whose max_depth is None for usize::MAX.
OpenWalker ==
    /\ pc = "open"
    /\ items' = IF Searching(cfg)
                THEN IgnoreItems(cfg, fs, effective_depth(cfg.depth), cfg.show_all)
                ELSE WalkDirItems(cfg, fs, effective_depth(cfg.depth), cfg.show_all)
    /\ idx' = 1
    /\ ancestor_has_more' = <<>>
    /\ first_print_done' = FALSE
    /\ pc' = IF Searching(cfg) THEN "collect" ELSE "stream"
    /\ UNCHANGED <<cfg, fs, spinVars, flagVars, scanVars, outVars, res, result>>

\* One turn of the loop on an Err item or on an entry the filter drops
StreamSkip ==
    /\ pc = "stream"
    /\ idx <= Len(items)
    /\ \/ ~items[idx].ok
       \/ /\ items[idx].ok
          /\ ~StreamKeeps(cfg, fs, items[idx].n, Searching(cfg), cfg.pattern, show_dirs)
    /\ idx' = idx + 1
    /\ UNCHANGED <<cfg, fs, pc, spinVars, flagVars, scanVars, items, ancestor_has_more,
                   first_print_done, outVars, res, result>>

\* Lines 392-401 / 448-455, first half: before the first printed entry the
\* flag is set (when the configuration carries one)
StreamSignal ==
    /\ pc = "stream"
    /\ idx <= Len(items)
    /\ items[idx].ok
    /\ StreamKeeps(cfg, fs, items[idx].n, Searching(cfg), cfg.pattern, show_dirs)
    /\ ~first_print_done /\ HasSpinner(cfg)
    /\ stop' = TRUE
    /\ stop_stores' = stop_stores + 1
    /\ pc' = "clear"
    /\ UNCHANGED <<cfg, fs, spinVars, stderr, scanVars, streamVars, outVars, res, result>>

\* second half: eprint!("\r                \r"); first_print_done = true
StreamClear ==
    /\ pc = "clear"
    /\ stderr' = Append(stderr, "clear")
    /\ first_print_done' = TRUE
    /\ pc' = "stream"
    /\ UNCHANGED <<cfg, fs, spinVars, stop, stop_stores, scanVars, items, idx,
                   ancestor_has_more, outVars, res, result>>

\* One turn of the loop on an entry that is printed: the stack and is_last,
\* the indent, and the line written (or the write failing, which ends
\* write_streaming with the error).
StreamEmit ==
    /\ pc = "stream"
    /\ idx <= Len(items)
    /\ items[idx].ok
    /\ StreamKeeps(cfg, fs, items[idx].n, Searching(cfg), cfg.pattern, show_dirs)
    /\ first_print_done \/ ~HasSpinner(cfg)
    /\ LET depth == items[idx].depth
           st == StreamState(ancestor_has_more, depth, PeekDepth(items, idx))
           indent == generate_indent(CharsetOf(cfg), depth, st.is_last)
       IN  /\ ancestor_has_more' = st.stack
           /\ first_print_done' = TRUE
           /\ \/ /\ out' = Append(out, EntryLine(cfg, fs, items[idx].n, indent))
                 /\ idx' = idx + 1
                 /\ pc' = pc
                 /\ res' = res
              \/ /\ out' = out
                 /\ idx' = idx
                 /\ pc' = "return"
                 /\ res' = "Io"
    /\ UNCHANGED <<cfg, fs, spinVars, flagVars, scanVars, items, notice, doc, result>>

\* The walker is exhausted: Ok(())
StreamEnd ==
    /\ pc = "stream"
    /\ idx > Len(items)
    /\ res' = "Ok"
    /\ pc' = "return"
    /\ UNCHANGED <<cfg, fs, spinVars, flagVars, scanVars, streamVars, outVars, result>>

(***************************************************************************)
(* The end of the run.                                                     *)
(***************************************************************************)
\* list.rs / search.rs file branch: the writer's result is the run's
Return ==
    /\ pc = "return"
    /\ ~HasSpinner(cfg)
    /\ result' = res
    /\ pc' = "done"
    /\ UNCHANGED <<cfg, fs, spinVars, flagVars, scanVars, streamVars, outVars, res>>

\* A plausible slip: write_to_terminal(..)? returns the error at once, so the
\* flag is stored and the thread joined only after a successful render.
StopSpinnerUnlessErr ==
    /\ pc = "return"
    /\ HasSpinner(cfg)
    /\ stop' = (stop \/ res = "Ok")
    /\ stop_stores' = IF res = "Ok" THEN stop_stores + 1 ELSE stop_stores
    /\ pc' = IF res = "Ok" THEN "join" ELSE "done"
    /\ result' = IF res = "Ok" THEN result ELSE res
    /\ UNCHANGED <<cfg, fs, spinVars, stderr, scanVars, streamVars, outVars, res>>

\* search.rs 57: stop.store(true, Relaxed) whatever res is
StopSpinner ==
    /\ pc = "return"
    /\ HasSpinner(cfg)
    /\ stop' = TRUE
    /\ stop_stores' = stop_stores + 1
    /\ pc' = "join"
    /\ UNCHANGED <<cfg, fs, spinVars, stderr, scanVars, streamVars, outVars, res, result>>

\* search.rs 58-59: spinner_handle.join(); res
Join ==
    /\ pc = "join"
    /\ spin = "done"
    /\ result' = res
    /\ pc' = "done"
    /\ UNCHANGED <<cfg, fs, spinVars, flagVars, scanVars, streamVars, outVars, res>>

(***************************************************************************)
(* The spinner thread (search.rs 34-48).                                   *)
(***************************************************************************)
frames == <<"|", "/", "-", "\\">>

\* eprint!("\x1B[?25l")
SpinHide ==
    /\ spin = "hide"
    /\ stderr' = Append(stderr, "hide")
    /\ spin' = "load"
    /\ UNCHANGED <<cfg, fs, mainVars, stop, stop_stores, i>>

\* while !stop_flag.load(Relaxed): the flag is read.  After MaxFrames frames
\* the thread sleeps until the flag is set.
SpinLoad ==
    /\ spin = "load"
    /\ stop \/ i < MaxFrames
    /\ spin' = IF stop THEN "cleanup" ELSE "frame"
    /\ UNCHANGED <<cfg, fs, mainVars, flagVars, i>>

\* eprint!("\rSearching... {}", frames[i % 4]); i += 1; sleep(120 ms)
SpinFrame ==
    /\ spin = "frame"
    /\ stderr' = Append(stderr, frames[(i % Len(frames)) + 1])
    /\ i' = i + 1
    /\ spin' = "load"
    /\ UNCHANGED <<cfg, fs, mainVars, stop, stop_stores>>

\* eprint!("\r                \r\x1B[?25h"): clear the line, show the cursor
SpinCleanup ==
    /\ spin = "cleanup"
    /\ stderr' = stderr \o <<"clear", "show">>
    /\ spin' = "done"
    /\ UNCHANGED <<cfg, fs, mainVars, stop, stop_stores, i>>

(***************************************************************************)
(* Specifications.                                                         *)
(***************************************************************************)
Main ==
    \/ ListFile \/ ListDir \/ ListInvalid \/ SearchFile \/ SearchTerminal
    \/ CreateFile \/ WriteHeader \/ Notice
    \/ Collect \/ ScanStep \/ ScanDone
    \/ WriteTree \/ WriteJson
    \/ OpenWalker \/ StreamSkip \/ StreamSignal \/ StreamClear \/ StreamEmit \/ StreamEnd
    \/ Return \/ StopSpinner \/ Join

Spinner == SpinHide \/ SpinLoad \/ SpinFrame \/ SpinCleanup

Next == Main \/ Spinner

\* Every command line on every filesystem of up to MaxNodes nodes.
Spec == Init /\ [][Next]_vars

\* search --output FILE (text): collect_entries, build_search_filter and
\* print_tree, without the spinner.
FilterConfigs == { c \in Configs : c.cmd = "search" /\ c.output = "file" /\ ~c.json }
InitFilter == InitOf(FilterConfigs, MaxNodes)
NextFilter ==
    \/ SearchFile \/ CreateFile \/ WriteHeader \/ Collect \/ ScanStep \/ ScanDone
    \/ WriteTree \/ Notice \/ Return
SpecFilter == InitFilter /\ [][NextFilter]_vars

\* --output FILE, text or JSON, list or search: write_to_file and what it
\* calls, without the spinner.  A list of a root that is not a directory
\* never reaches write_to_file.
ExportConfigs ==
    { c \in Configs : c.output = "file" /\ (c.cmd = "search" \/ c.rootKind = "dir") }
InitExport == InitOf(ExportConfigs, MaxNodes)
NextExport ==
    \/ ListDir \/ SearchFile \/ CreateFile \/ WriteHeader \/ Collect \/ ScanStep
    \/ ScanDone \/ WriteTree \/ WriteJson \/ Notice \/ Return
SpecExport == InitExport /\ [][NextExport]_vars

\* The text renderers on a directory: the streaming loop on the terminal
\* (list, and search with its spinner) and print_tree into a file.  The
\* root's name and the glyph set are fixed.
RenderConfigs ==
    { c \in Configs : /\ ~c.json /\ c.rootKind = "dir"
                      /\ c.rootName = <<"r">> /\ c.charset = "Unicode" }
InitRender == InitOf(RenderConfigs, MaxNodes)
NextRender ==
    \/ ListDir \/ SearchFile \/ SearchTerminal \/ CreateFile \/ WriteHeader \/ Notice
    \/ Collect \/ ScanStep \/ ScanDone \/ WriteTree
    \/ OpenWalker \/ StreamSkip \/ StreamSignal \/ StreamClear \/ StreamEmit \/ StreamEnd
    \/ Return \/ StopSpinner \/ Join \/ Spinner
SpecRender == InitRender /\ [][NextRender]_vars

\* The loop of write_streaming on every sequence of walker items of depths
\* 0..MaxItemDepth, Err items among them: a listing on the terminal whose
\* walker is open.  The stack code reads an item's depth only, so every item
\* stands for the same entry.
DepthItems ==
    UNION { [1..m -> [n : {0}, depth : 0..MaxItemDepth, ok : BOOLEAN]] : m \in 0..MaxItems }
DepthConfigs ==
    { c \in Configs : /\ c.cmd = "list" /\ c.output = "terminal" /\ ~c.json
                      /\ c.rootKind = "dir" /\ c.rootName = <<"r">>
                      /\ c.depth = 0 /\ ~c.show_all }
InitDepths ==
    /\ cfg \in DepthConfigs
    /\ fs = <<>>
    /\ pc = "stream"
    /\ items \in DepthItems
    /\ idx = 1
    /\ ancestor_has_more = <<>>
    /\ first_print_done = FALSE
    /\ spin = "off" /\ stop = FALSE /\ stop_stores = 0 /\ i = 0 /\ stderr = <<>>
    /\ entries = <<>> /\ scan_todo = {} /\ show_dirs = {}
    /\ out = <<>> /\ notice = FALSE /\ doc = NoDoc
    /\ res = "none" /\ result = "none"
NextDepths == StreamSkip \/ StreamEmit \/ StreamEnd \/ Return
SpecDepths == InitDepths /\ [][NextDepths]_vars

\* A text search on the terminal over trees with ignored nodes: the scan
\* reads collect_entries, the loop reads the ignore walker.
IgnoredConfigs ==
    { c \in Configs : /\ HasSpinner(c) /\ ~c.json /\ c.rootKind = "dir"
                      /\ c.depth = 0 /\ c.charset = "Unicode" /\ c.rootName = <<"r">> }
InitIgnored == InitWith(IgnoredConfigs, IgnoredFileSystems(MaxSpinNodes))
NextIgnored ==
    \/ SearchTerminal \/ Collect \/ ScanStep \/ ScanDone
    \/ OpenWalker \/ StreamSkip \/ StreamSignal \/ StreamClear \/ StreamEmit
    \/ StreamEnd \/ StopSpinner \/ Join \/ Spinner
SpecIgnored == InitIgnored /\ [][NextIgnored]_vars

\* build_search_filter(entries, pattern, show_hidden) on the entries of every
\* tree, hidden directories among them whatever show_hidden is: the function
\* takes any slice of entries, here every readable entry of the tree.
ScanConfigs ==
    { c \in Configs : /\ c.cmd = "search" /\ c.output = "file" /\ ~c.json
                      /\ c.rootKind = "dir" /\ c.rootName = <<"r">> /\ c.depth = 0 }
InitScan ==
    /\ cfg \in ScanConfigs
    /\ fs \in FileSystems(MaxNodes)
    /\ pc = "scan"
    /\ entries = SeqOfNodes(fs, { k \in 1..Len(fs) : ~fs[k].err })
    /\ scan_todo = 1..Cardinality({ k \in 1..Len(fs) : ~fs[k].err })
    /\ show_dirs = {}
    /\ items = <<>> /\ idx = 1 /\ ancestor_has_more = <<>> /\ first_print_done = FALSE
    /\ spin = "off" /\ stop = FALSE /\ stop_stores = 0 /\ i = 0 /\ stderr = <<>>
    /\ out = <<>> /\ notice = FALSE /\ doc = NoDoc
    /\ res = "none" /\ result = "none"
NextScan == ScanStep \/ ScanDone
SpecScan == InitScan /\ [][NextScan]_vars

\* Every command on a directory whose tree holds a file without readable
\* metadata: the three sinks, the spinner of a terminal search included.
MetaConfigs ==
    { c \in Configs : /\ c.rootKind = "dir" /\ c.rootName = <<"r">>
                      /\ c.charset = "Unicode" /\ c.depth = 0 }
InitMeta == InitWith(MetaConfigs, MetaFileSystems(MaxSpinNodes))
NextMeta ==
    \/ ListDir \/ SearchFile \/ SearchTerminal \/ CreateFile \/ WriteHeader \/ Notice
    \/ Collect \/ ScanStep \/ ScanDone \/ WriteTree \/ WriteJson
    \/ OpenWalker \/ StreamSkip \/ StreamSignal \/ StreamClear \/ StreamEmit \/ StreamEnd
    \/ Return \/ StopSpinner \/ Join \/ Spinner
SpecMeta == InitMeta /\ [][NextMeta]_vars

\* search on the terminal: the main thread and the spinner thread, both
\* scheduled fairly by the OS.  The depth bound, the glyph set and the
\* root's name are fixed: the two threads share only stop and stderr.
SpinnerConfigs ==
    { c \in Configs : /\ HasSpinner(c)
                      /\ c.depth = 0 /\ c.charset = "Unicode" /\ c.rootName = <<"r">> }
InitSpinner == InitOf(SpinnerConfigs, MaxSpinNodes)
MainSearchTerminal ==
    \/ SearchTerminal \/ Collect \/ ScanStep \/ ScanDone \/ WriteJson
    \/ OpenWalker \/ StreamSkip \/ StreamSignal \/ StreamClear \/ StreamEmit
    \/ StreamEnd \/ StopSpinner \/ Join
NextSpinner == MainSearchTerminal \/ Spinner
SpecSpinner ==
    InitSpinner /\ [][NextSpinner]_vars
        /\ WF_vars(MainSearchTerminal) /\ WF_vars(Spinner)

(***************************************************************************)
(* What the claims speak of.                                               *)
(***************************************************************************)
\* The lines of out that are entries (not the "." header, not a preview)
IsEntryLine(l) == l.n # None
LineDepth(l) == DepthOf(fs, l.n)
HasLastGlyph(l) ==
    Len(l.indent) > 0 /\ l.indent[Len(l.indent)] = branch_last(CharsetOf(cfg))
HasMiddleGlyph(l) ==
    Len(l.indent) > 0 /\ l.indent[Len(l.indent)] = branch_middle(CharsetOf(cfg))

\* write_streaming has returned Ok
StreamFinished == Sink(cfg) = "stream" /\ pc \in {"return", "join", "done"} /\ res = "Ok"

\* The proper ancestors of node k below the root, by the parent relation
RECURSIVE AncestorsOf(_, _)
AncestorsOf(f, k) ==
    IF k = 0 \/ ParentOf(f, k) = 0 THEN {}
    ELSE {ParentOf(f, k)} \cup AncestorsOf(f, ParentOf(f, k))

RECURSIVE DocNodes(_)
\* The entries a children array holds, at every level
DocNodes(children) ==
    UNION { {children.list[j].n} \cup DocNodes(children.list[j].children) :
            j \in 1..Len(children.list) }

\* The entries the walker of the run's sink yielded, and those in its output
YieldedEntries ==
    IF Sink(cfg) = "stream" THEN { items[j].n : j \in { j \in 1..Len(items) : items[j].ok } }
    ELSE { entries[j].n : j \in 1..Len(entries) }
OutputEntries ==
    IF Sink(cfg) = "json" THEN DocNodes(doc.children)
    ELSE { out[j].n : j \in { j \in 1..Len(out) : IsEntryLine(out[j]) } }

\* The run wrote its whole output
OutputComplete ==
    /\ pc = "done" /\ result = "Ok"
    /\ cfg.cmd = "search" \/ cfg.rootKind = "dir"

(***************************************************************************)
(* Claims.                                                                 *)
(***************************************************************************)
\* C1: with a pattern active, an entry the walker yielded is in the output
\* iff (its name contains the pattern case-insensitively or its path is in
\* the retained set) and it is not a hidden directory while show_hidden is
\* false; in every sink.
C1_FilterSoundness ==
    (OutputComplete /\ Searching(cfg)) =>
        OutputEntries =
            { k \in YieldedEntries :
                /\ name_matches(cfg, fs, k, cfg.pattern) \/ PathOf(fs, k) \in show_dirs
                /\ ~(IsDirOf(cfg, fs, k) /\ is_hidden(cfg, fs, k) /\ ~cfg.show_all) }

\* C2: in the streaming renderer an emitted entry at depth d carries the
\* last-branch glyph iff the next emitted entry has depth < d or there is no
\* next emitted entry.
C2_LastChildStreaming ==
    Sink(cfg) = "stream" =>
        /\ \A j \in 1..(Len(out) - 1) :
              LineDepth(out[j]) >= 1 =>
                 (HasLastGlyph(out[j]) <=> LineDepth(out[j + 1]) < LineDepth(out[j]))
        /\ (StreamFinished /\ out # <<>> /\ LineDepth(out[Len(out)]) >= 1) =>
              HasLastGlyph(out[Len(out)])

\* C3: an emitted entry is drawn with the last-child glyph iff no later
\* emitted entry has the same parent, and with the middle glyph otherwise;
\* directories with emitted children included.
C3_GlyphMatchesSiblingPosition ==
    (OutputComplete /\ Sink(cfg) \in {"stream", "print"}) =>
        \A j \in 1..Len(out) :
            (IsEntryLine(out[j]) /\ LineDepth(out[j]) >= 1) =>
                LET final == ~(\E j2 \in (j + 1)..Len(out) :
                                  ParentOf(fs, out[j2].n) = ParentOf(fs, out[j].n))
                IN  /\ HasLastGlyph(out[j]) <=> final
                    /\ HasMiddleGlyph(out[j]) <=> ~final

\* C4: the indentation the streaming renderer wrote for each entry is the
\* one compute_last_child_map followed by generate_indent gives for the same
\* sequence of entries (with the same glyph set).
C4_StreamingEqualsTwoPass ==
    StreamFinished =>
        LET map == compute_last_child_map([j \in 1..Len(out) |-> LineDepth(out[j])])
        IN  \A j \in 1..Len(out) :
                out[j].indent =
                    generate_indent(CharsetOf(cfg), LineDepth(out[j]), map[j])

\* C5: after build_search_filter, for every entry whose name matches the
\* pattern (and that is not a hidden directory skipped because show_hidden is
\* false), every proper ancestor directory below the scan root is in the set.
C5_AncestorClosure ==
    (Searching(cfg) /\ pc \in {"print", "json", "stream"}) =>
        \A j \in 1..Len(entries) :
            LET k == entries[j].n
            IN  (/\ name_matches(cfg, fs, k, cfg.pattern)
                 /\ ~(IsDirOf(cfg, fs, k) /\ is_hidden(cfg, fs, k) /\ ~cfg.show_all))
                => \A a \in AncestorsOf(fs, k) : PathOf(fs, a) \in show_dirs

\* C5 witness: the scan is over and a matching entry lies three levels down,
\* both of its ancestors retained.
C5_Witness ==
    /\ Searching(cfg) /\ pc = "print"
    /\ \E j \in 1..Len(entries) :
          /\ entries[j].depth = 3
          /\ name_matches(cfg, fs, entries[j].n, cfg.pattern)
          /\ Cardinality(AncestorsOf(fs, entries[j].n)) = 2
          /\ \A a \in AncestorsOf(fs, entries[j].n) : PathOf(fs, a) \in show_dirs

\* C6: in text mode every emitted entry line is an entry of depth >= 1: the
\* scan root is never printed as an entry.
C6_RootNeverEmitted ==
    Sink(cfg) \in {"stream", "print"} =>
        \A j \in 1..Len(out) : IsEntryLine(out[j]) => LineDepth(out[j]) >= 1

\* C7: in a terminal search, once the renderer has written its first tree
\* line the spinner writes no further frame.
C7_NoFrameAfterFirstLine ==
    [][(HasSpinner(cfg) /\ out # <<>>) => i' = i]_vars

\* The clear-line and cursor-restore sequence is on stderr, no frame after it
CleanupAfterLastFrame ==
    \E n \in 1..Len(stderr) :
        /\ stderr[n] = "show"
        /\ n > 1 /\ stderr[n - 1] = "clear"
        /\ \A m \in (n + 1)..Len(stderr) : \A g \in 1..Len(frames) : stderr[m] # frames[g]

\* C8: in every terminal search run the flag is eventually set, the spinner
\* observes it, writes the clear-line and cursor-restore sequence after its
\* last frame and terminates, and the run returns only after that, whether
\* rendering returned Ok or Err and whether or not a line was printed.
C8_SpinnerCleanup ==
    /\ [](pc = "done" => (stop /\ spin = "done" /\ CleanupAfterLastFrame))
    /\ <>(pc = "done")

\* C8 witness: rendering returned Err before any line was printed, and the
\* run has returned with the spinner stopped and cleaned up.
C8_Witness ==
    /\ HasSpinner(cfg) /\ pc = "done" /\ result = "Io" /\ out = <<>>
    /\ spin = "done" /\ CleanupAfterLastFrame /\ i > 0

\* C9: a run returns an error exactly when a top-level error occurs (the
\* root is neither a file nor a directory, or output fails), and InvalidPath
\* is returned before any traversal or output.
C9_ErrorIffTopLevelError ==
    pc = "done" =>
        /\ (result # "Ok") <=>
              (cfg.rootKind = "invalid" \/ result \in {"Io", "Highlight"})
        /\ result = "InvalidPath" =>
              (cfg.rootKind = "invalid" /\ out = <<>> /\ doc = NoDoc
               /\ entries = <<>> /\ items = <<>>)

RECURSIVE StreamLines(_, _, _, _, _, _)
\* The loop of write_streaming run over the items `its` from item n on, the
\* stack being `stack`: the lines it writes.
StreamLines(c, f, its, n, stack, dirs) ==
    IF n > Len(its) THEN <<>>
    ELSE IF ~its[n].ok \/ ~StreamKeeps(c, f, its[n].n, Searching(c), c.pattern, dirs)
    THEN StreamLines(c, f, its, n + 1, stack, dirs)
    ELSE LET st == StreamState(stack, its[n].depth, PeekDepth(its, n))
             indent == generate_indent(CharsetOf(c), its[n].depth, st.is_last)
         IN  <<EntryLine(c, f, its[n].n, indent)>>
                 \o StreamLines(c, f, its, n + 1, st.stack, dirs)

\* C10: the lines the streaming renderer emits for a walker sequence that
\* holds error items are the lines it emits for the same sequence with the
\* error items removed.
C10_ErrorsDroppedWithoutTrace ==
    StreamFinished =>
        out = StreamLines(cfg, fs, SelectSeq(items, LAMBDA it : it.ok), 1, <<>>, show_dirs)

(***************************************************************************)
(* The structured document.                                                *)
(***************************************************************************)
RECURSIVE DocRecords(_)
\* The node records a children array holds, at every level
DocRecords(children) ==
    UNION { {children.list[j]} \cup DocRecords(children.list[j].children) :
            j \in 1..Len(children.list) }

\* An entry survives the filter: with a pattern, its name matches or its
\* path is retained, and it is not a hidden directory while show_hidden is
\* false; without a pattern every walked entry survives.
Survives(k) ==
    Searching(cfg) =>
        /\ name_matches(cfg, fs, k, cfg.pattern) \/ PathOf(fs, k) \in show_dirs
        /\ ~(IsDirOf(cfg, fs, k) /\ is_hidden(cfg, fs, k) /\ ~cfg.show_all)

\* The walked entries that survive, in walker order
Survivors == SelectSeq(entries, LAMBDA it : Survives(it.n))

\* The surviving children of directory k
SurvivingChildren(k) ==
    { Survivors[j].n : j \in { j \in 1..Len(Survivors) : ParentOf(fs, Survivors[j].n) = k } }

\* C11: a directory node built from a walked entry omits its children field
\* iff it has no surviving children and a pattern is active; with no pattern
\* every directory node carries a children array; file nodes never do.
C11_ChildrenRule ==
    doc # NoDoc =>
        \A nd \in DocRecords(doc.children) :
            IF IsDirOf(cfg, fs, nd.n)
            THEN /\ ~nd.children.present <=>
                        (SurvivingChildren(nd.n) = {} /\ Searching(cfg))
                 /\ ~Searching(cfg) => nd.children.present
                 /\ nd.children.present =>
                        { nd.children.list[j].n : j \in 1..Len(nd.children.list) }
                            = SurvivingChildren(nd.n)
            ELSE ~nd.children.present

\* C11 witness: a search wrote a document in which one directory node has no
\* children field and another carries a non-empty array.
C11_Witness ==
    /\ Searching(cfg) /\ doc # NoDoc
    /\ \E nd \in DocRecords(doc.children) :
          IsDirOf(cfg, fs, nd.n) /\ ~nd.children.present
    /\ \E nd \in DocRecords(doc.children) :
          IsDirOf(cfg, fs, nd.n) /\ nd.children.present /\ nd.children.list # <<>>

\* C12: for an empty directory with no pattern the top node's children is
\* the empty array; with a pattern active and no matching entry anywhere the
\* top node has no children key.
C12_TopNode ==
    (doc # NoDoc /\ cfg.rootKind = "dir") =>
        /\ (~Searching(cfg) /\ fs = <<>>) => doc.children = Children(<<>>)
        /\ (Searching(cfg) /\ Survivors = <<>>) => ~doc.children.present

\* C13: over a whole terminal search run there is exactly one store of true
\* to the shared stop flag, however many entries are printed and whether or
\* not rendering succeeds.
C13_StopStoredOnce ==
    (HasSpinner(cfg) /\ pc = "done") => stop_stores = 1

\* The run goes through write_to_file
WritesToFile == cfg.output = "file" /\ (Searching(cfg) \/ cfg.rootKind = "dir")

\* C14: text written to a file starts with the literal "." line in every
\* configuration, also when no entry survives, followed by one line per
\* surviving entry; structured output written to a file has no "." line.
C14_FileHeader ==
    WritesToFile =>
        /\ (Sink(cfg) = "print" /\ pc \in {"collect", "scan", "print"}) => out = <<DotLine>>
        /\ (Sink(cfg) = "print" /\ out # <<>>) => out[1] = DotLine
        /\ (Sink(cfg) = "print" /\ pc = "done" /\ result = "Ok") =>
              /\ Len(out) = 1 + Len(Survivors)
              /\ \A j \in 1..Len(Survivors) : out[j + 1].n = Survivors[j].n
        /\ Sink(cfg) = "json" => \A j \in 1..Len(out) : out[j] # DotLine

\* C14 witness: a search wrote its text to a file, one walked entry was
\* filtered out and one survived: the file is "." and one entry line.
C14_Witness ==
    /\ WritesToFile /\ Sink(cfg) = "print" /\ Searching(cfg)
    /\ pc = "done" /\ result = "Ok"
    /\ Len(entries) >= 2 /\ Len(out) = 2 /\ out[1] = DotLine

(***************************************************************************)
(* The walk.                                                               *)
(***************************************************************************)
\* The skip policy on a name: in the skip-list, or dot-named while
\* show_hidden is false
SkippedName(name) ==
    is_common_skip_name(name) \/ (~cfg.show_all /\ is_hidden_name(name))

\* Node k is an entry the policy lets through: it can be read, and neither it
\* nor a directory above it (below the root) is skipped
NonSkipped(k) ==
    /\ ~fs[k].err
    /\ \A a \in {k} \cup AncestorsOf(fs, k) : ~SkippedName(fs[a].name)

\* What a walk bounded by the --depth argument d is to yield
WithinDepth(d) ==
    { k \in 1..Len(fs) : NonSkipped(k) /\ (d = 0 \/ fs[k].depth <= d) }

\* collect_entries has run / the streaming walker is open
Collected == pc \in {"scan", "json", "print"} \/ (pc = "stream" /\ Searching(cfg))
WalkerOpen == Sink(cfg) = "stream" /\ pc \in {"collect", "scan", "stream", "clear"}

\* C15: a walk with depth 0 yields the non-skipped entries at every depth;
\* with depth n > 0 it yields exactly the non-skipped entries of depth 1..n.
C15_DepthBound ==
    cfg.rootKind = "dir" =>
        /\ Collected => { entries[j].n : j \in 1..Len(entries) } = WithinDepth(cfg.depth)
        /\ WalkerOpen => YieldedEntries = WithinDepth(cfg.depth)

\* C16: no emitted entry has a name in the skip-list, none has a dot-name
\* while show_hidden is false, none lies below such a directory; with
\* show_hidden true the dot-named entries outside the skip-list are emitted.
C16_SkipPolicy ==
    /\ \A k \in OutputEntries :
          /\ ~SkippedName(NameOf(cfg, fs, k))
          /\ \A a \in AncestorsOf(fs, k) : ~SkippedName(fs[a].name)
    /\ (OutputComplete /\ cfg.rootKind = "dir" /\ ~Searching(cfg) /\ cfg.show_all) =>
          \A k \in WithinDepth(cfg.depth) :
              is_hidden_name(fs[k].name) => k \in OutputEntries

(***************************************************************************)
(* The emitted sequence.                                                   *)
(***************************************************************************)
\* The entries of the lines written, in order
Emitted == SelectSeq(out, IsEntryLine)

\* Directory d lies above node k (d below the root)
IsAbove(d, k) == d \in AncestorsOf(fs, k)

\* C17: in the emitted sequence the entries below an emitted directory form
\* one contiguous block right after it, and every emitted entry of depth > 1
\* is preceded by its parent directory.
C17_PreorderContiguity ==
    Sink(cfg) \in {"stream", "print"} =>
        /\ \A j \in 1..Len(Emitted) :
              DepthOf(fs, Emitted[j].n) > 1 =>
                 \E h \in 1..(j - 1) : Emitted[h].n = ParentOf(fs, Emitted[j].n)
        /\ \A h \in 1..Len(Emitted) : \A j \in 1..Len(Emitted) :
              IsAbove(Emitted[h].n, Emitted[j].n) =>
                 /\ h < j
                 /\ \A m \in (h + 1)..j : IsAbove(Emitted[h].n, Emitted[m].n)

\* C17 witness: a search printed a directory, the directory below it and the
\* match below that, after the walker had yielded an entry the filter drops.
C17_Witness ==
    /\ Sink(cfg) = "stream" /\ Searching(cfg) /\ pc = "done" /\ result = "Ok"
    /\ \E j \in 1..Len(Emitted) : DepthOf(fs, Emitted[j].n) = 2 /\ ~IsDirOf(cfg, fs, Emitted[j].n)
    /\ Len(Emitted) < Len(items)

\* The entry lines text mode writes to a file for the same root, depth,
\* show_hidden and pattern (TreeWriter::write on the same TreeData)
TextFileLines == print_tree(cfg, fs, entries, Searching(cfg), cfg.pattern, show_dirs)

\* The nodes of a children array are in walker enumeration order
InWalkerOrder(list) ==
    \A h \in 1..Len(list) : \A j \in (h + 1)..Len(list) : list[h].n < list[j].n

\* C18: the nodes of the structured document other than the synthetic root
\* are the entries text mode writes to a file; each node is a child of the
\* node of its parent directory; each children array is in walker order.
C18_DocMirrorsEntries ==
    doc # NoDoc =>
        /\ DocNodes(doc.children) = { TextFileLines[j].n : j \in 1..Len(TextFileLines) }
        /\ \A nd \in DocRecords(doc.children) \cup {doc} :
              /\ \A j \in 1..Len(nd.children.list) :
                    ParentOf(fs, nd.children.list[j].n) = nd.n
              /\ InWalkerOrder(nd.children.list)

\* C18 witness: a search wrote a document with a node two levels down,
\* while a walked entry was left out.
C18_Witness ==
    /\ Searching(cfg) /\ doc # NoDoc
    /\ \E nd \in DocRecords(doc.children) : DepthOf(fs, nd.n) = 2
    /\ Cardinality(DocNodes(doc.children)) < Len(entries)

(***************************************************************************)
(* Rendering as a function of the configuration and the tree.              *)
(***************************************************************************)
\* build_search_filter over all of `ents`
ScanResult(c, f, ents) ==
    IF Searching(c)
    THEN UNION { ScanEntry(c, f, ents[j].n, c.pattern, c.show_all) : j \in 1..Len(ents) }
    ELSE {}

\* The text a render writes, computed from the configuration and the tree
\* alone, the renderer starting from an empty stack
Rendered(c, f) ==
    LET ents == collect_entries(c, f, effective_depth(c.depth), c.show_all)
        dirs == ScanResult(c, f, ents)
        its == IF Searching(c)
               THEN IgnoreItems(c, f, effective_depth(c.depth), c.show_all)
               ELSE WalkDirItems(c, f, effective_depth(c.depth), c.show_all)
    IN  IF Sink(c) = "print"
        THEN <<DotLine>> \o print_tree(c, f, ents, Searching(c), c.pattern, dirs)
        ELSE StreamLines(c, f, its, 1, <<>>, dirs)

IsPrefix(a, b) == Len(a) <= Len(b) /\ SubSeq(b, 1, Len(a)) = a

\* C19: rendering the same entries with the same configuration gives the
\* same output: what a run has written is a prefix of, and at the end is,
\* the one text the configuration and the tree determine, whatever the order
\* of the scan and the scheduling of the threads.
C19_Determinism ==
    (Sink(cfg) \in {"stream", "print"} /\ cfg.rootKind = "dir" /\ out # <<>>) =>
        /\ IsPrefix(out, Rendered(cfg, fs))
        /\ (pc = "done" /\ result = "Ok") => out = Rendered(cfg, fs)

\* C19 witness: a search whose scan processed two matching entries, in some
\* order, has written its whole text.
C19_Witness ==
    /\ Sink(cfg) \in {"stream", "print"} /\ Searching(cfg)
    /\ pc = "done" /\ result = "Ok" /\ Len(out) >= 3
    /\ \E h \in 1..Len(entries) : \E j \in (h + 1)..Len(entries) :
          /\ name_matches(cfg, fs, entries[h].n, cfg.pattern)
          /\ name_matches(cfg, fs, entries[j].n, cfg.pattern)
          /\ ParentOf(fs, entries[h].n) # ParentOf(fs, entries[j].n)
    /\ out = Rendered(cfg, fs)

\* The step in which the loop processes an entry it prints (the write may fail)
EmitStep == pc = "stream" /\ (out' # out \/ res' = "Io")

\* C20: after the streaming renderer has processed an emitted entry the
\* length of ancestor_has_more is the depth of that entry, whatever the
\* depths before it.
C20_StackLength ==
    [][EmitStep => Len(ancestor_has_more') = items[idx].depth]_vars

\* C20 witness: the loop has processed entries of depths 1, 3 and 1, a jump
\* of two levels down and one of two levels up, and the stack has length 1.
C20_Witness ==
    /\ Len(items) = 3 /\ idx = 4 /\ Len(out) = 3
    /\ items[1].depth = 1 /\ items[2].depth = 3 /\ items[3].depth = 1
    /\ Len(ancestor_has_more) = 1

(***************************************************************************)
(* The lookahead.                                                          *)
(***************************************************************************)
\* Item j of the walker survives: it is not an Err and the filter keeps it
SurvivesAt(j) ==
    /\ items[j].ok
    /\ StreamKeeps(cfg, fs, items[j].n, Searching(cfg), cfg.pattern, show_dirs)

\* The depth of the next surviving item after item n, None when none follows
NextSurvivingDepth(n) ==
    LET later == { j \in (n + 1)..Len(items) : SurvivesAt(j) }
    IN  IF later = {} THEN None
        ELSE items[CHOOSE j \in later : \A j2 \in later : j <= j2].depth

\* C21: the depth the streaming renderer takes as d_next for an entry it
\* prints is the depth of the next entry that survives filtering and error
\* dropping, and none only when no surviving entry follows.
C21_LookaheadOverSurvivors ==
    [][EmitStep => PeekDepth(items, idx) = NextSurvivingDepth(idx)]_vars

\* The ancestor of node k at depth d (1 <= d < depth of k)
AncestorAt(k, d) == CHOOSE a \in AncestorsOf(fs, k) : fs[a].depth = d

\* Node a has a sibling under the same parent that is emitted after it
HasLaterEmittedSibling(a) ==
    \E h \in 1..Len(Emitted) : \E j \in (h + 1)..Len(Emitted) :
        /\ Emitted[h].n = a
        /\ Emitted[j].n # 0
        /\ ParentOf(fs, Emitted[j].n) = ParentOf(fs, a)

\* C22: in the line of an emitted entry of depth d, column i (1 <= i <= d-1)
\* holds the continuation glyph iff the entry's ancestor at depth i has a
\* later emitted sibling under the same parent, and the blank otherwise.
C22_AncestorGlyphs ==
    (OutputComplete /\ Sink(cfg) \in {"stream", "print"}) =>
        \A j \in 1..Len(Emitted) :
            \A d \in 1..(DepthOf(fs, Emitted[j].n) - 1) :
                Emitted[j].indent[d] =
                    IF HasLaterEmittedSibling(AncestorAt(Emitted[j].n, d))
                    THEN continuation(CharsetOf(cfg))
                    ELSE empty(CharsetOf(cfg))

(***************************************************************************)
(* The diagnostic stream.                                                  *)
(***************************************************************************)
\* The spinner thread has been spawned and its join has not completed
SpinnerLive == spin # "off" /\ pc # "done"

\* A step of the spinner thread: each of them moves the thread on
SpinnerStep == spin' # spin /\ spin # "off"

\* C23: in a terminal search, between the start of the spinner thread and
\* the completion of its join, only the spinner thread writes to stderr.
C23_OnlySpinnerWritesStderr ==
    [][(SpinnerLive /\ stderr' # stderr) => SpinnerStep]_vars

(***************************************************************************)
(* The two enumerations of a search.                                       *)
(***************************************************************************)
\* The entries of a sequence of walker items, in order
NodesOf(its) == [j \in 1..Len(its) |-> its[j].n]

\* The entries the streaming renderer consumes: the walker's Ok items
Consumed == SelectSeq(items, LAMBDA it : it.ok)

\* C24: the sequence passed to build_search_filter is the sequence the
\* renderer then filters and prints.  TreeData::collect hands the one
\* collection to both; in write_streaming the scan reads collect_entries and
\* the loop reads its walker.
C24_SameEntries ==
    (Searching(cfg) /\ Sink(cfg) = "stream" /\ pc \in {"scan", "stream", "clear"}) =>
        NodesOf(entries) = NodesOf(Consumed)

\* Directory k (the root included) lies above node m
IsAboveOrRoot(k, m) == m # 0 /\ (k = 0 \/ k \in AncestorsOf(fs, m))

\* C25: with a pattern active every directory in the output matches the
\* pattern by its own name or has a descendant that matches it and is in the
\* output too.
C25_NoOrphanDirectories ==
    (OutputComplete /\ Searching(cfg)) =>
        \A k \in OutputEntries :
            IsDirOf(cfg, fs, k) =>
                \/ name_matches(cfg, fs, k, cfg.pattern)
                \/ \E m \in OutputEntries :
                      IsAboveOrRoot(k, m) /\ name_matches(cfg, fs, m, cfg.pattern)

(***************************************************************************)
(* The retained set.                                                       *)
(***************************************************************************)
RECURSIVE SequentialScan(_, _, _, _)
\* The loop of build_search_filter run by one worker, first entry to last,
\* from entry n on: the set it builds
SequentialScan(c, f, ents, n) ==
    IF n > Len(ents) THEN {}
    ELSE ScanEntry(c, f, ents[n].n, c.pattern, c.show_all)
             \cup SequentialScan(c, f, ents, n + 1)

\* The scan of build_search_filter has processed every entry
ScanOver == Searching(cfg) /\ pc \in {"print", "json", "stream"}

\* C26: whatever the order in which the workers process the entries, the set
\* build_search_filter returns is the one a sequential scan builds, and
\* while the scan runs the set holds what the processed entries inserted.
C26_ScanOrderIndependent ==
    /\ ScanOver => show_dirs = SequentialScan(cfg, fs, entries, 1)
    /\ pc = "scan" =>
          show_dirs = UNION { ScanEntry(cfg, fs, entries[k].n, cfg.pattern, cfg.show_all) :
                              k \in (1..Len(entries)) \ scan_todo }

\* C26 witness: the scan is over, two entries under different directories
\* matched, and the set is the sequential one.
C26_Witness ==
    /\ ScanOver /\ show_dirs = SequentialScan(cfg, fs, entries, 1)
    /\ \E h \in 1..Len(entries) : \E j \in (h + 1)..Len(entries) :
          /\ ScanEntry(cfg, fs, entries[h].n, cfg.pattern, cfg.show_all) # {}
          /\ ScanEntry(cfg, fs, entries[j].n, cfg.pattern, cfg.show_all) # {}
          /\ ScanEntry(cfg, fs, entries[h].n, cfg.pattern, cfg.show_all)
                # ScanEntry(cfg, fs, entries[j].n, cfg.pattern, cfg.show_all)

\* Path p is a proper ancestor of path q
IsProperAncestor(p, q) == Len(p) < Len(q) /\ SubSeq(q, 1, Len(p)) = p

\* Entry k matches the pattern and is not skipped as a hidden directory
MatchesUnskipped(k) ==
    /\ name_matches(cfg, fs, k, cfg.pattern)
    /\ ~(IsDirOf(cfg, fs, k) /\ is_hidden(cfg, fs, k) /\ ~cfg.show_all)

\* C27: every path of the set build_search_filter returns is a proper
\* ancestor of an entry that matches the pattern and was not skipped as a
\* hidden directory; an entry's own path is there only as the ancestor of
\* another match, and a non-matching entry inserts nothing.
C27_RetainedSetJustified ==
    /\ [](\A p \in show_dirs :
            \E j \in 1..Len(entries) :
                /\ MatchesUnskipped(entries[j].n)
                /\ IsProperAncestor(p, PathOf(fs, entries[j].n)))
    /\ [][\A k \in scan_todo :
             (scan_todo' = scan_todo \ {k} /\ ~name_matches(cfg, fs, entries[k].n, cfg.pattern))
                 => show_dirs' = show_dirs]_vars

\* C27 witness: the scan is over; a directory's path is retained for the
\* match beneath it, the match's own path is not, and an entry that does not
\* match was scanned too.
C27_Witness ==
    /\ ScanOver
    /\ \E h \in 1..Len(entries) : \E j \in 1..Len(entries) :
          /\ PathOf(fs, entries[h].n) \in show_dirs
          /\ MatchesUnskipped(entries[j].n)
          /\ IsProperAncestor(PathOf(fs, entries[h].n), PathOf(fs, entries[j].n))
          /\ PathOf(fs, entries[j].n) \notin show_dirs
    /\ \E j \in 1..Len(entries) : ~name_matches(cfg, fs, entries[j].n, cfg.pattern)

\* Entry k is a hidden directory
IsHiddenDir(k) == IsDirOf(cfg, fs, k) /\ is_hidden(cfg, fs, k)

\* The entries without the hidden directories
WithoutHiddenDirs == SelectSeq(entries, LAMBDA it : ~IsHiddenDir(it.n))

\* C28: with show_hidden false a hidden directory that matches inserts none
\* of its ancestors: the set is the one the other entries build.  With
\* show_hidden true a hidden directory that matches has all its ancestors
\* in the set, as any entry has.
C28_HiddenDirsDoNotPropagate ==
    ScanOver =>
        IF cfg.show_all
        THEN \A j \in 1..Len(entries) :
                (IsHiddenDir(entries[j].n) /\ name_matches(cfg, fs, entries[j].n, cfg.pattern))
                    => \A a \in AncestorsOf(fs, entries[j].n) : PathOf(fs, a) \in show_dirs
        ELSE show_dirs = SequentialScan(cfg, fs, WithoutHiddenDirs, 1)

\* C28 witness: show_hidden is false, a hidden directory that matches lies
\* under a directory, and that directory's path is not in the set.
C28_Witness ==
    /\ ScanOver /\ ~cfg.show_all
    /\ \E j \in 1..Len(entries) :
          /\ IsHiddenDir(entries[j].n)
          /\ name_matches(cfg, fs, entries[j].n, cfg.pattern)
          /\ AncestorsOf(fs, entries[j].n) # {}
          /\ \A a \in AncestorsOf(fs, entries[j].n) : PathOf(fs, a) \notin show_dirs

\* The spinner thread has been started
SpinnerStarted == spin # "off"

\* C29: the spinner thread is started iff the command is a search, the
\* destination is the terminal and the output is streaming text; never for
\* file output or for JSON output.
C29_SpinnerOnlyForStreamingSearch ==
    /\ SpinnerStarted =>
          (cfg.cmd = "search" /\ cfg.output = "terminal" /\ Sink(cfg) = "stream")
    /\ (pc # "start" /\ cfg.cmd = "search" /\ cfg.output = "terminal" /\ Sink(cfg) = "stream")
          => SpinnerStarted

(***************************************************************************)
(* Metadata.                                                               *)
(***************************************************************************)
\* Node k is a file whose size lookup fails
SizeLookupFails(k) == k # 0 /\ ~fs[k].dir /\ ~fs[k].meta

\* The walker items the streaming loop keeps
StreamSurvivors == SelectSeq(items, LAMBDA it :
    it.ok /\ StreamKeeps(cfg, fs, it.n, Searching(cfg), cfg.pattern, show_dirs))

\* C30: when the size lookup of a surviving file fails, text mode writes the
\* entry's line with a size of zero and goes on with the remaining entries,
\* structured mode writes the node without a size field, and the render
\* returns Ok unless a write fails.
C30_MetadataFailureDegrades ==
    /\ \A j \in 1..Len(Emitted) :
          ~IsDirOf(cfg, fs, Emitted[j].n) =>
              (Emitted[j].suffix = " (0 B)" <=> SizeLookupFails(Emitted[j].n))
    /\ \A nd \in DocRecords(doc.children) :
          /\ SizeLookupFails(nd.n) => ~nd.size
          /\ (~IsDirOf(cfg, fs, nd.n) /\ ~SizeLookupFails(nd.n)) => nd.size
    /\ res \in {"none", "Ok", "Io"}
    /\ (OutputComplete /\ Sink(cfg) = "stream") => NodesOf(Emitted) = NodesOf(StreamSurvivors)
    /\ (OutputComplete /\ Sink(cfg) = "print") => NodesOf(Emitted) = NodesOf(Survivors)
    /\ (OutputComplete /\ Sink(cfg) = "json") =>
          DocNodes(doc.children) = { Survivors[j].n : j \in 1..Len(Survivors) }

\* C30 witness: a listing on the terminal returned Ok after it wrote the
\* line of a file whose size lookup failed, with a size of zero, and then
\* the line of the entry after it.
C30_Witness ==
    /\ OutputComplete /\ Sink(cfg) = "stream"
    /\ Len(Emitted) = 2
    /\ SizeLookupFails(Emitted[1].n) /\ Emitted[1].suffix = " (0 B)"
    /\ ~SizeLookupFails(Emitted[2].n)

====
